---- MODULE Spec2Model ----
(***************************************************************************)
(* The markdown normalisation pipeline of trpl-ebook.                      *)
(*                                                                         *)
(* A text is a sequence of glyphs (one-character strings, a multi-byte     *)
(* character being one glyph).  A document is the sequence of lines that   *)
(* str::lines() yields for it; every fold of the source appends            *)
(* line + "\n", so the string it builds is again such a sequence.  The     *)
(* backquote, which a TLA+ string cannot hold, is the glyph BT.            *)
(***************************************************************************)
EXTENDS Integers, Sequences, FiniteSets, TLC

VARIABLES pc, fn, input, base_level, prefix, max_len, sep, output

vars == <<pc, fn, input, base_level, prefix, max_len, sep, output>>

(***************************************************************************)
(* Glyph helpers                                                           *)
(***************************************************************************)
\* what the regex class \s matches among the glyphs of the model
Whitespace == {" ", "\t"}

BT == "backquote"

CODE_BLOCK_TOGGLE == <<BT, BT, BT>>

starts_with(line, pat) ==
    Len(line) >= Len(pat) /\ SubSeq(line, 1, Len(pat)) = pat

\* pat occurs in s at position i
MatchAt(s, pat, i) ==
    i >= 1 /\ i + Len(pat) - 1 <= Len(s) /\ SubSeq(s, i, i + Len(pat) - 1) = pat

Contains(s, pat) == \E i \in 1..(Len(s) + 1) : MatchAt(s, pat, i)

\* n copies of the glyph g
Repeat(g, n) == [i \in 1..n |-> g]

RECURSIVE Concat(_)
Concat(ss) == IF ss = <<>> THEN <<>> ELSE Head(ss) \o Concat(Tail(ss))

(***************************************************************************)
(* helpers/adjust_header_level.rs                                          *)
(***************************************************************************)
calc_header_level_off_by_one(base, current_level) == current_level + base

calc_header_level(base, current_level) == current_level + base - 1

\* number of '#' the greedy group [#]+ takes at the start of the line
LeadingHashes(line) ==
    CHOOSE n \in 0..Len(line) :
        /\ \A i \in 1..n : line[i] = "#"
        /\ (n = Len(line) \/ line[n + 1] # "#")

\* ^(?P<level>[#]+)\s(?P<title>.+)$
headline_pattern(line) ==
    LET n == LeadingHashes(line)
    IN  IF n >= 1 /\ Len(line) >= n + 2 /\ line[n + 1] \in Whitespace
        THEN [matched |-> TRUE, level |-> SubSeq(line, 1, n),
              title |-> SubSeq(line, n + 2, Len(line))]
        ELSE [matched |-> FALSE, level |-> <<>>, title |-> <<>>]

\* the closure without its early return for lines inside a fence
adjust_header_level_line_no_fence(in_code_block, line, base) ==
    LET toggle == starts_with(line, CODE_BLOCK_TOGGLE)
        headline == headline_pattern(line)
    IN  [in_code_block |-> IF toggle THEN ~in_code_block ELSE in_code_block,
         out |-> IF headline.matched
                 THEN <<Repeat("#", calc_header_level(base, Len(headline.level)))
                        \o <<" ">> \o headline.title>>
                 ELSE <<line>>]

\* the closure folded over the lines: the flag after the line, and what is appended
adjust_header_level_line(in_code_block, line, base) ==
    LET toggle == starts_with(line, CODE_BLOCK_TOGGLE)
        headline == headline_pattern(line)
    IN  IF in_code_block /\ ~toggle
        THEN [in_code_block |-> TRUE, out |-> <<line>>]
        ELSE [in_code_block |-> (toggle /\ ~in_code_block),
              out |-> IF headline.matched
                      THEN <<Repeat("#", calc_header_level(base, Len(headline.level)))
                             \o <<" ">> \o headline.title>>
                      ELSE <<line>>]

RECURSIVE adjust_header_level_fold(_, _, _, _)
adjust_header_level_fold(lines, base, in_code_block, initial) ==
    IF lines = <<>>
    THEN [in_code_block |-> in_code_block, output |-> initial]
    ELSE LET r == adjust_header_level_line(in_code_block, Head(lines), base)
         IN  adjust_header_level_fold(Tail(lines), base, r.in_code_block,
                                      initial \o r.out)

adjust_header_level(text, base) ==
    adjust_header_level_fold(text, base, FALSE, <<>>).output

(***************************************************************************)
(* helpers/adjust_reference_names.rs                                       *)
(***************************************************************************)
SetMin(S) == CHOOSE x \in S : \A y \in S : x <= y

SetMax(S) == CHOOSE x \in S : \A y \in S : x >= y

\* positions of the closing bracket that  open (?P<id>.+?) \]  can end at when it
\* starts at p: the id holds at least one glyph
LazyEnds(s, open, p) ==
    {e \in (p + Len(open) + 1)..Len(s) : s[e] = "]"}

\* leftmost match of  open (?P<id>.+?) \]  at or after `from` (start = 0: none);
\* the lazy id stops at the first closing bracket
LazyMatchFrom(s, open, from) ==
    LET starts == {p \in from..Len(s) :
                      MatchAt(s, open, p) /\ LazyEnds(s, open, p) # {}}
    IN  IF starts = {}
        THEN [start |-> 0, end |-> 0]
        ELSE [start |-> SetMin(starts),
              end |-> SetMin(LazyEnds(s, open, SetMin(starts)))]

\* Regex::replace in place of replace_all: only the first match is rewritten
rename_first(s, open, pre, from) ==
    LET m == LazyMatchFrom(s, open, from)
    IN  IF m.start = 0
        THEN SubSeq(s, from, Len(s))
        ELSE SubSeq(s, from, m.start - 1)
             \o open \o pre \o <<"-", "-">>
             \o SubSeq(s, m.start + Len(open), m.end - 1) \o <<"]">>
             \o SubSeq(s, m.end + 1, Len(s))

\* Regex::replace_all with the closure format!("{open}{prefix}--{id}]")
RECURSIVE rename_all(_, _, _, _)
rename_all(s, open, pre, from) ==
    LET m == LazyMatchFrom(s, open, from)
    IN  IF m.start = 0
        THEN SubSeq(s, from, Len(s))
        ELSE SubSeq(s, from, m.start - 1)
             \o open \o pre \o <<"-", "-">>
             \o SubSeq(s, m.start + Len(open), m.end - 1) \o <<"]">>
             \o rename_all(s, open, pre, m.end + 1)

\* \]\[(?P<id>.+?)\]
reference_link_open == <<"]", "[">>

reference_link_is_match(line) == LazyMatchFrom(line, reference_link_open, 1).start # 0

\* \[\^(?P<id>.+?)\]
footnote_open == <<"[", "^">>

footnote_is_match(line) == LazyMatchFrom(line, footnote_open, 1).start # 0

\* positions q of the bracket in  \]:\s  that leave a link of at least one glyph,
\* for an id that starts at idstart
DefEnds(line, idstart) ==
    {q \in (idstart + 1)..(Len(line) - 3) :
        line[q] = "]" /\ line[q + 1] = ":" /\ line[q + 2] \in Whitespace}

\* ^\[(?P<footnote>\^)?(?P<id>.+)\]:\s(?P<link>.+)$ : the optional group is tried
\* first, the greedy id reaches the last  ]:\s  of the line
reference_def(line) ==
    LET caret == Len(line) >= 2 /\ line[2] = "^" /\ DefEnds(line, 3) # {}
        idstart == IF caret THEN 3 ELSE 2
        q == SetMax(DefEnds(line, idstart))
    IN  IF Len(line) >= 1 /\ line[1] = "[" /\ DefEnds(line, idstart) # {}
        THEN [matched |-> TRUE,
              footnote |-> IF caret THEN <<"^">> ELSE <<>>,
              id |-> SubSeq(line, idstart, q - 1),
              link |-> SubSeq(line, q + 3, Len(line))]
        ELSE [matched |-> FALSE, footnote |-> <<>>, id |-> <<>>, link |-> <<>>]

\* the rewrites of a line outside a fence: the first pattern that matches decides
adjust_reference_name_rewrite(line, pre) ==
    LET def == reference_def(line)
    IN  IF reference_link_is_match(line)
        THEN rename_all(line, reference_link_open, pre, 1)
        ELSE IF footnote_is_match(line)
        THEN rename_all(line, footnote_open, pre, 1)
        ELSE IF def.matched
        THEN <<"[">> \o def.footnote \o pre \o <<"-", "-">> \o def.id
             \o <<"]", ":", " ">> \o def.link
        ELSE line

\* the closure folded over the lines
adjust_reference_name_line(in_code_block, line, pre) ==
    LET toggle == starts_with(line, CODE_BLOCK_TOGGLE)
    IN  IF in_code_block /\ ~toggle
        THEN [in_code_block |-> TRUE, out |-> <<line>>]
        ELSE [in_code_block |-> (toggle /\ ~in_code_block),
              out |-> <<adjust_reference_name_rewrite(line, pre)>>]

RECURSIVE adjust_reference_name_fold(_, _, _, _)
adjust_reference_name_fold(lines, pre, in_code_block, initial) ==
    IF lines = <<>>
    THEN [in_code_block |-> in_code_block, output |-> initial]
    ELSE LET r == adjust_reference_name_line(in_code_block, Head(lines), pre)
         IN  adjust_reference_name_fold(Tail(lines), pre, r.in_code_block,
                                        initial \o r.out)

adjust_reference_name(text, pre) ==
    adjust_reference_name_fold(text, pre, FALSE, <<>>).output

(***************************************************************************)
(* helpers/line_breaks.rs                                                  *)
(***************************************************************************)
\* sep.chars().count()
sep_length(s) == Len(s)

\* the growth of line_end without the marker's share
line_end_step_no_sep(max, seplen) == max - 1

\* what a line break adds to line_end
line_end_step(max, seplen) == max - seplen - 1

\* the loop over line.chars().enumerate(), index counting from 0, taken from one
\* line break to the next: the glyphs before index line_end - 1 are pushed as
\* they are, the glyph at an index >= line_end - 1 after "\n" and the marker
RECURSIVE break_long_line_from(_, _, _, _, _)
break_long_line_from(line, index, line_end, max, separator) ==
    IF index >= Len(line) THEN <<>>
    ELSE IF index >= line_end - 1
    THEN <<"\n">> \o separator \o <<line[index + 1]>>
         \o break_long_line_from(line, index + 1,
                                 line_end + line_end_step(max, sep_length(separator)),
                                 max, separator)
    ELSE LET stop == IF Len(line) < line_end - 1 THEN Len(line) ELSE line_end - 1
         IN  SubSeq(line, index + 1, stop)
             \o break_long_line_from(line, stop, line_end, max, separator)

break_long_line(line, max, separator) ==
    break_long_line_from(line, 0, max, max, separator)

\* where the lines of a text end: at every "\n", and after the last glyph when
\* that is no "\n"
LineEnds(text) ==
    {i \in 1..Len(text) : text[i] = "\n"}
    \cup (IF text # <<>> /\ text[Len(text)] # "\n" THEN {Len(text) + 1} ELSE {})

\* str::lines(): the text split at "\n", no line for the empty rest after a final
\* "\n", a "\r" before the "\n" dropped
str_lines(text) ==
    LET ends == LineEnds(text)
        end(k) == CHOOSE e \in ends : Cardinality({x \in ends : x < e}) = k - 1
        start(k) == IF k = 1 THEN 1 ELSE end(k - 1) + 1
        strip(l) == IF l # <<>> /\ l[Len(l)] = "\r" THEN SubSeq(l, 1, Len(l) - 1) ELSE l
    IN  [k \in 1..Cardinality(ends) |-> strip(SubSeq(text, start(k), end(k) - 1))]

\* the test's long_line is this text twice
long_line_half ==
    <<"m", "a", "r", "k", "d", "o", "w", "n", "+", "g", "r", "i", "d",
      "_", "t", "a", "b", "l", "e", "s", "+", "p", "i", "p", "e", "_",
      "t", "a", "b", "l", "e", "s", "+", "r", "a", "w", "_", "h", "t",
      "m", "l", "+", "i", "m", "p", "l", "i", "c", "i", "t", "_", "f",
      "i", "g", "u", "r", "e", "s", "+", "f", "o", "o", "t", "n", "o",
      "t", "e", "s", "+", "i", "n", "t", "r", "a", "w", "o", "r", "d",
      "_", "u", "n", "d", "e", "r", "s", "c", "o", "r", "e", "s", "+",
      "a", "u", "t", "o", "_", "i", "d", "e", "n", "t", "i", "f", "i",
      "e", "r", "s", "-", "i", "n", "l", "i", "n", "e", "_", "c", "o",
      "d", "e", "_", "a", "t", "t", "r", "i", "b", "u", "t", "e", "s">>

long_line == long_line_half \o long_line_half

(***************************************************************************)
(* helpers/normalize_code_blocks.rs                                        *)
(***************************************************************************)
\* the closure with a toggle line being the bare token only, no tag after it
break_code_blocks_line_bare_toggle(in_code_block, line, max, separator) ==
    LET toggle == (line = CODE_BLOCK_TOGGLE)
    IN  IF in_code_block /\ ~toggle
        THEN [in_code_block |-> TRUE,
              out |-> str_lines(break_long_line(line, max, separator) \o <<"\n">>)]
        ELSE [in_code_block |-> (toggle /\ ~in_code_block), out |-> <<line>>]

\* the closure of break_code_blocks: lines inside a fence are broken
break_code_blocks_line(in_code_block, line, max, separator) ==
    LET toggle == starts_with(line, CODE_BLOCK_TOGGLE)
    IN  IF in_code_block /\ ~toggle
        THEN [in_code_block |-> TRUE,
              out |-> str_lines(break_long_line(line, max, separator) \o <<"\n">>)]
        ELSE [in_code_block |-> (toggle /\ ~in_code_block), out |-> <<line>>]

RECURSIVE break_code_blocks_fold(_, _, _, _, _)
break_code_blocks_fold(lines, max, separator, in_code_block, initial) ==
    IF lines = <<>>
    THEN [in_code_block |-> in_code_block, output |-> initial]
    ELSE LET r == break_code_blocks_line(in_code_block, Head(lines), max, separator)
         IN  break_code_blocks_fold(Tail(lines), max, separator, r.in_code_block,
                                    initial \o r.out)

break_code_blocks(text, max, separator) ==
    break_code_blocks_fold(text, max, separator, FALSE, <<>>).output

Rust == <<"r", "u", "s", "t">>

\* ^```rust : the keyword directly after the toggle only
rust_code_block_start_strict(line) ==
    starts_with(line, CODE_BLOCK_TOGGLE \o Rust)

\* ^```(.*)rust(.*)
rust_code_block_start(line) ==
    /\ starts_with(line, CODE_BLOCK_TOGGLE)
    /\ \E i \in 4..Len(line) : MatchAt(line, Rust, i)

\* ^#   (a hash mark and a space)
hidden_code(line) == starts_with(line, <<"#", " ">>)

\* the closure with the hidden-line test not guarded by the flag
normalize_code_start_line_any_hidden(in_code_block, line) ==
    IF hidden_code(line)
    THEN [in_code_block |-> in_code_block, out |-> <<>>]
    ELSE IF rust_code_block_start(line)
    THEN [in_code_block |-> TRUE, out |-> <<CODE_BLOCK_TOGGLE \o Rust>>]
    ELSE IF starts_with(line, CODE_BLOCK_TOGGLE)
    THEN [in_code_block |-> FALSE, out |-> <<line>>]
    ELSE [in_code_block |-> in_code_block, out |-> <<line>>]

\* the closure of normalize_code_start
normalize_code_start_line(in_code_block, line) ==
    IF in_code_block /\ hidden_code(line)
    THEN [in_code_block |-> in_code_block, out |-> <<>>]
    ELSE IF rust_code_block_start(line)
    THEN [in_code_block |-> TRUE, out |-> <<CODE_BLOCK_TOGGLE \o Rust>>]
    ELSE IF starts_with(line, CODE_BLOCK_TOGGLE)
    THEN [in_code_block |-> FALSE, out |-> <<line>>]
    ELSE [in_code_block |-> in_code_block, out |-> <<line>>]

RECURSIVE normalize_code_start_fold(_, _, _)
normalize_code_start_fold(lines, in_code_block, initial) ==
    IF lines = <<>>
    THEN [in_code_block |-> in_code_block, output |-> initial]
    ELSE LET r == normalize_code_start_line(in_code_block, Head(lines))
         IN  normalize_code_start_fold(Tail(lines), r.in_code_block, initial \o r.out)

normalize_code_start(text) == normalize_code_start_fold(text, FALSE, <<>>).output

(***************************************************************************)
(* helpers/normalize.rs: the passes over the whole text                    *)
(***************************************************************************)
\* the string a fold has built: every line followed by "\n"
ToText(doc) == Concat([i \in DOMAIN doc |-> doc[i] \o <<"\n">>])

\* str::replace: every occurrence of pat, left to right
RECURSIVE str_replace_from(_, _, _, _)
str_replace_from(text, pat, to, from) ==
    LET found == {p \in from..(Len(text) - Len(pat) + 1) : MatchAt(text, pat, p)}
    IN  IF found = {}
        THEN SubSeq(text, from, Len(text))
        ELSE SubSeq(text, from, SetMin(found) - 1) \o to
             \o str_replace_from(text, pat, to, SetMin(found) + Len(pat))

str_replace(text, pat, to) == str_replace_from(text, pat, to, 1)

Letters ==
    {"a", "b", "c", "d", "e", "f", "g", "h", "i", "j", "k", "l", "m", "n", "o", "p",
     "q", "r", "s", "t", "u", "v", "w", "x", "y", "z", "é",
     "A", "B", "C", "D", "E", "F", "G", "H", "I", "J", "K", "L", "M", "N", "O", "P",
     "Q", "R", "S", "T", "U", "V", "W", "X", "Y", "Z"}

\* \d
Digits == {"0", "1", "2", "3", "4", "5", "6", "7", "8", "9"}

\* [\w-_]
WordDash == Letters \cup Digits \cup {"_", "-"}

\* last position of the longest run of glyphs of S that starts at i (i - 1: none)
RunEndIn(text, i, S) ==
    CHOOSE e \in (i - 1)..Len(text) :
        /\ \A j \in i..e : text[j] \in S
        /\ (e = Len(text) \/ text[e + 1] \notin S)

DocRoot ==
    <<"h", "t", "t", "p", ":", "/", "/", "d", "o", "c", ".",
      "r", "u", "s", "t", "-", "l", "a", "n", "g", ".", "o", "r", "g", "/">>

N_STD == <<"s", "t", "d">>

N_REFERENCE == <<"r", "e", "f", "e", "r", "e", "n", "c", "e">>

N_RUSTC == <<"r", "u", "s", "t", "c">>

N_SYNTAX == <<"s", "y", "n", "t", "a", "x">>

N_BOOK == <<"b", "o", "o", "k">>

N_ADVBOOK == <<"a", "d", "v", "-", "b", "o", "o", "k">>

N_CORE == <<"c", "o", "r", "e">>

DotHtml == <<".", "h", "t", "m", "l">>

SecPrefix == <<"#", "s", "e", "c", "-", "-">>

\* ]\((?P<file>[\w-_]+)\.html\)  at p
cross_section_link(text, p) ==
    /\ MatchAt(text, <<"]", "(">>, p)
    /\ RunEndIn(text, p + 2, WordDash) >= p + 2
    /\ MatchAt(text, DotHtml \o <<")">>, RunEndIn(text, p + 2, WordDash) + 1)

\* replace_all(.., "](#sec--$file)")
RECURSIVE cross_section_link_replace(_, _)
cross_section_link_replace(text, from) ==
    LET found == {p \in from..Len(text) : cross_section_link(text, p)}
        p == SetMin(found)
        e == RunEndIn(text, p + 2, WordDash)
    IN  IF found = {}
        THEN SubSeq(text, from, Len(text))
        ELSE SubSeq(text, from, p - 1) \o <<"]", "(">> \o SecPrefix
             \o SubSeq(text, p + 2, e) \o <<")">>
             \o cross_section_link_replace(text, e + 7)

\* ]\((?P<file>[\w-_]+)\.html#(?P<subsection>[\w-_]+)\)  at p
cross_subsection_link(text, p) ==
    LET e == RunEndIn(text, p + 2, WordDash)
    IN  /\ MatchAt(text, <<"]", "(">>, p)
        /\ e >= p + 2
        /\ MatchAt(text, DotHtml \o <<"#">>, e + 1)
        /\ RunEndIn(text, e + 7, WordDash) >= e + 7
        /\ MatchAt(text, <<")">>, RunEndIn(text, e + 7, WordDash) + 1)

\* replace_all(.., "](#$subsection)")
RECURSIVE cross_subsection_link_replace(_, _)
cross_subsection_link_replace(text, from) ==
    LET found == {p \in from..Len(text) : cross_subsection_link(text, p)}
        p == SetMin(found)
        e == RunEndIn(text, p + 2, WordDash)
        e2 == RunEndIn(text, e + 7, WordDash)
    IN  IF found = {}
        THEN SubSeq(text, from, Len(text))
        ELSE SubSeq(text, from, p - 1) \o <<"]", "(", "#">>
             \o SubSeq(text, e + 7, e2) \o <<")">>
             \o cross_subsection_link_replace(text, e2 + 2)

\* (?m)^ and (?m)$
LineStart(text, p) == p = 1 \/ (p > 1 /\ p <= Len(text) + 1 /\ text[p - 1] = "\n")

LineEnd(text, p) == p = Len(text) + 1 \/ (p >= 1 /\ p <= Len(text) /\ text[p] = "\n")

\* [^:^/]
NotFileGlyph == {":", "^", "/"}

\* the closing brackets q that  \[(?P<id>.+)\]:\s  can reach from a line start p
RefIdEnds(text, p) ==
    {q \in (p + 2)..(Len(text) - 2) :
        /\ \A j \in (p + 1)..(q - 1) : text[j] # "\n"
        /\ text[q] = "]" /\ text[q + 1] = ":"
        /\ text[q + 2] \in Whitespace \cup {"\n"}}

\* the ends e of  (?P<file>[^:^/]+)  before  \.html$  for the bracket at q
SectionFileEnds(text, q) ==
    {e \in (q + 3)..Len(text) :
        /\ \A j \in (q + 3)..e : text[j] \notin NotFileGlyph
        /\ MatchAt(text, DotHtml, e + 1)
        /\ LineEnd(text, e + 6)}

\* (?m)^\[(?P<id>.+)\]:\s(?P<file>[^:^/]+)\.html$  at p
cross_section_ref(text, p) ==
    /\ LineStart(text, p) /\ p <= Len(text) /\ text[p] = "["
    /\ \E q \in RefIdEnds(text, p) : SectionFileEnds(text, q) # {}

\* replace_all(.., "[$id]: #sec--$file"): the greedy id, then the greedy file
RECURSIVE cross_section_ref_replace(_, _)
cross_section_ref_replace(text, from) ==
    LET found == {p \in from..Len(text) : cross_section_ref(text, p)}
        p == SetMin(found)
        q == SetMax({x \in RefIdEnds(text, p) : SectionFileEnds(text, x) # {}})
        e == SetMax(SectionFileEnds(text, q))
    IN  IF found = {}
        THEN SubSeq(text, from, Len(text))
        ELSE SubSeq(text, from, p - 1) \o <<"[">> \o SubSeq(text, p + 1, q - 1)
             \o <<"]", ":", " ">> \o SecPrefix \o SubSeq(text, q + 3, e)
             \o cross_section_ref_replace(text, e + 6)

\* the ends e of  (?P<file>[^:^/]+)  before  \.html#(?P<subsection>[\w-_]+)$
SubsectionFileEnds(text, q) ==
    {e \in (q + 3)..Len(text) :
        /\ \A j \in (q + 3)..e : text[j] \notin NotFileGlyph
        /\ MatchAt(text, DotHtml \o <<"#">>, e + 1)
        /\ RunEndIn(text, e + 7, WordDash) >= e + 7
        /\ LineEnd(text, RunEndIn(text, e + 7, WordDash) + 1)}

\* (?m)^\[(?P<id>.+)\]:\s(?P<file>[^:^/]+)\.html#(?P<subsection>[\w-_]+)$  at p
cross_subsection_ref(text, p) ==
    /\ LineStart(text, p) /\ p <= Len(text) /\ text[p] = "["
    /\ \E q \in RefIdEnds(text, p) : SubsectionFileEnds(text, q) # {}

\* replace_all(.., "[$id]: #$subsection")
RECURSIVE cross_subsection_ref_replace(_, _)
cross_subsection_ref_replace(text, from) ==
    LET found == {p \in from..Len(text) : cross_subsection_ref(text, p)}
        p == SetMin(found)
        q == SetMax({x \in RefIdEnds(text, p) : SubsectionFileEnds(text, x) # {}})
        e == SetMax(SubsectionFileEnds(text, q))
        e2 == RunEndIn(text, e + 7, WordDash)
    IN  IF found = {}
        THEN SubSeq(text, from, Len(text))
        ELSE SubSeq(text, from, p - 1) \o <<"[">> \o SubSeq(text, p + 1, q - 1)
             \o <<"]", ":", " ", "#">> \o SubSeq(text, e + 7, e2)
             \o cross_subsection_ref_replace(text, e2 + 1)

\* the prefix substitutions, in the order of the source
doc_replace(text, name) ==
    str_replace(text, <<".", ".", "/">> \o name, DocRoot \o name)

normalize_links(text) ==
    LET a == doc_replace(text, N_STD)
        b == doc_replace(a, N_REFERENCE)
        c == doc_replace(b, N_RUSTC)
        d == doc_replace(c, N_SYNTAX)
        e == doc_replace(d, N_BOOK)
        f == doc_replace(e, N_ADVBOOK)
        h == doc_replace(f, N_CORE)
    IN  cross_subsection_ref_replace(
            cross_subsection_link_replace(
                cross_section_ref_replace(
                    cross_section_link_replace(h, 1), 1), 1), 1)

\* (\d+)<sup>(\d+)</sup>  at p
superscript(text, p) ==
    LET d1 == RunEndIn(text, p, Digits)
        d2 == RunEndIn(text, d1 + 6, Digits)
    IN  /\ d1 >= p
        /\ MatchAt(text, <<"<", "s", "u", "p", ">">>, d1 + 1)
        /\ d2 >= d1 + 6
        /\ MatchAt(text, <<"<", "/", "s", "u", "p", ">">>, d2 + 1)

\* replace_all(.., "$1^$2^")
RECURSIVE normalize_math_from(_, _)
normalize_math_from(text, from) ==
    LET found == {p \in from..Len(text) : superscript(text, p)}
        p == SetMin(found)
        d1 == RunEndIn(text, p, Digits)
        d2 == RunEndIn(text, d1 + 6, Digits)
    IN  IF found = {}
        THEN SubSeq(text, from, Len(text))
        ELSE SubSeq(text, from, p - 1) \o SubSeq(text, p, d1) \o <<"^">>
             \o SubSeq(text, d1 + 6, d2) \o <<"^">>
             \o normalize_math_from(text, d2 + 7)

normalize_math(text) == normalize_math_from(text, 1)

NORMALIZE_MAX_LEN == 87

NORMALIZE_SEP == <<"↳", " ">>

\* the text normalize returns
normalize_text(doc) ==
    normalize_math(normalize_links(ToText(
        normalize_code_start(
            break_code_blocks(doc, NORMALIZE_MAX_LEN, NORMALIZE_SEP)))))

normalize(doc) == str_lines(normalize_text(doc))

(***************************************************************************)
(* src/helpers/remove_file_title.rs                                        *)
(***************************************************************************)
\* ^%\s(.+)\n  replaced once by nothing: a percent sign at the start of the text,
\* one whitespace glyph (a line end is one), at least one glyph, a line end
remove_file_title(text) ==
    LET ends == {i \in 3..Len(text) : text[i] = "\n"}
    IN  IF /\ Len(text) >= 2
           /\ text[1] = "%"
           /\ text[2] \in Whitespace \cup {"\n", "\r"}
           /\ ends # {}
           /\ SetMin(ends) >= 4
        THEN SubSeq(text, SetMin(ends) + 1, Len(text))
        ELSE text

(***************************************************************************)
(* src/convert_book/markdown.rs                                            *)
(***************************************************************************)
\* ends of the lazy title of toc_pattern for the star at p: a closing bracket and
\* an opening parenthesis follow, and later a closing parenthesis after at least
\* one glyph of file name
TocTitleEnds(line, p) ==
    {te \in (p + 3)..(Len(line) - 4) :
        /\ line[te + 1] = "]"
        /\ line[te + 2] = "("
        /\ \E fe \in (te + 3)..(Len(line) - 1) : line[fe + 1] = ")"}

\* the star of  \*\s\[ title \]\( filename \)  at p
TocStarAt(line, p) ==
    /\ p + 2 <= Len(line)
    /\ line[p] = "*"
    /\ line[p + 1] \in Whitespace
    /\ line[p + 2] = "["
    /\ TocTitleEnds(line, p) # {}

\* toc_pattern.captures(line): the leftmost match; the lazy indent is the run of
\* whitespace right before the star, title and file name are the shortest ones
toc_pattern(line) ==
    LET stars == {p \in 1..Len(line) : TocStarAt(line, p)}
    IN  IF stars = {}
        THEN [is_match |-> FALSE, indent |-> <<>>, title |-> <<>>, filename |-> <<>>]
        ELSE LET p == SetMin(stars)
                 spaces == {s \in 1..p : \A i \in s..(p - 1) : line[i] \in Whitespace}
                 te == SetMin(TocTitleEnds(line, p))
                 fe == SetMin({e \in (te + 3)..(Len(line) - 1) : line[e + 1] = ")"})
             IN  [is_match |-> TRUE,
                  indent |-> SubSeq(line, SetMin(spaces), p - 1),
                  title |-> SubSeq(line, p + 3, te),
                  filename |-> SubSeq(line, te + 3, fe)]

\* the name group taking the extension with it
filename_pattern_keep_ext(filename) ==
    LET slashes == {i \in 1..Len(filename) : filename[i] = "/"}
    IN  IF slashes = {} THEN filename
        ELSE SubSeq(filename, SetMax(slashes) + 1, Len(filename))

\* the name group of filename_pattern: what follows the last slash, up to the
\* first dot after which only word glyphs follow
filename_pattern(filename) ==
    LET slashes == {i \in 1..Len(filename) : filename[i] = "/"}
        rest == IF slashes = {} THEN filename
                ELSE SubSeq(filename, SetMax(slashes) + 1, Len(filename))
        dots == {d \in 1..Len(rest) :
                    /\ rest[d] = "."
                    /\ \A i \in (d + 1)..Len(rest) :
                          rest[i] \in Letters \cup Digits \cup {"_"}}
    IN  IF dots = {} THEN rest ELSE SubSeq(rest, 1, SetMin(dots) - 1)

\* the two heading levels the wrong way round
Chapter_levels_swapped(link) ==
    LET level == IF Len(link.indent) = 0 THEN <<"#", "#">> ELSE <<"#">>
    IN  [file |-> link.filename,
         headline |-> level \o <<" ">> \o link.title
                      \o <<" ", "{", "#", "s", "e", "c", "-", "-">>
                      \o filename_pattern(link.filename) \o <<"}", "\n">>]

\* Chapter { file, headline } of one matching line of the table of contents
Chapter(link) ==
    LET level == IF Len(link.indent) = 0 THEN <<"#">> ELSE <<"#", "#">>
    IN  [file |-> link.filename,
         headline |-> level \o <<" ">> \o link.title
                      \o <<" ", "{", "#", "s", "e", "c", "-", "-">>
                      \o filename_pattern(link.filename) \o <<"}", "\n">>]

RECURSIVE get_chapters(_)
get_chapters(toc) ==
    IF toc = <<>>
    THEN <<>>
    ELSE LET link == toc_pattern(Head(toc))
         IN  (IF link.is_match THEN <<Chapter(link)>> ELSE <<>>)
             \o get_chapters(Tail(toc))

(***************************************************************************)
(* src/read_toc.rs: the same table-of-contents parser, the bullet followed *)
(* by a space where markdown.rs takes any whitespace                       *)
(***************************************************************************)
read_toc_star_at(line, p) ==
    /\ p + 2 <= Len(line)
    /\ line[p] = "*"
    /\ line[p + 1] = " "
    /\ line[p + 2] = "["
    /\ TocTitleEnds(line, p) # {}

read_toc_pattern(line) ==
    LET stars == {p \in 1..Len(line) : read_toc_star_at(line, p)}
    IN  IF stars = {}
        THEN [is_match |-> FALSE, indent |-> <<>>, title |-> <<>>, filename |-> <<>>]
        ELSE LET p == SetMin(stars)
                 spaces == {s \in 1..p : \A i \in s..(p - 1) : line[i] \in Whitespace}
                 te == SetMin(TocTitleEnds(line, p))
                 fe == SetMin({e \in (te + 3)..(Len(line) - 1) : line[e + 1] = ")"})
             IN  [is_match |-> TRUE,
                  indent |-> SubSeq(line, SetMin(spaces), p - 1),
                  title |-> SubSeq(line, p + 3, te),
                  filename |-> SubSeq(line, te + 3, fe)]

RECURSIVE read_toc_get_chapters(_)
read_toc_get_chapters(toc) ==
    IF toc = <<>>
    THEN <<>>
    ELSE LET link == read_toc_pattern(Head(toc))
         IN  (IF link.is_match THEN <<Chapter(link)>> ELSE <<>>)
             \o read_toc_get_chapters(Tail(toc))

SUMMARY_MD == <<"S", "U", "M", "M", "A", "R", "Y", ".", "m", "d">>

README_MD == <<"R", "E", "A", "D", "M", "E", ".", "m", "d">>

README_PREFIX == <<"r", "e", "a", "d", "m", "e">>

INTRODUCTION == <<"#", " ", "I", "n", "t", "r", "o", "d", "u", "c", "t", "i", "o", "n">>

\* the four passes over one file: headings, title line, reference names, normalize
file_content(file, base, pre) ==
    LET levelled == ToText(adjust_header_level(file, base))
        untitled == remove_file_title(levelled)
        renamed == ToText(adjust_reference_name(str_lines(untitled), pre))
    IN  normalize_text(str_lines(renamed))

\* what the book gains for README.md
readme_section(file) ==
    <<"\n", "\n">> \o INTRODUCTION \o <<"\n", "\n">>
    \o file_content(file, 1, README_PREFIX)

\* every chapter namespaced with the prefix of README.md
chapter_section_readme_prefix(chapter, file) ==
    <<"\n", "\n">> \o chapter.headline \o <<"\n">>
    \o file_content(file, 3, README_PREFIX)

\* the chapter's own headings levelled as those of README.md
chapter_section_base_one(chapter, file) ==
    <<"\n", "\n">> \o chapter.headline \o <<"\n">>
    \o file_content(file, 1, chapter.file)

\* what the book gains for one chapter: its references are namespaced with the
\* file name as the table of contents writes it
chapter_section(chapter, file) ==
    <<"\n", "\n">> \o chapter.headline \o <<"\n">>
    \o file_content(file, 3, chapter.file)

\* the loop over the chapters; a file that cannot be read ends the run with Err
RECURSIVE chapters_fold(_, _, _)
chapters_fold(src, chapters, book) ==
    IF chapters = <<>>
    THEN [ok |-> TRUE, book |-> book]
    ELSE IF Head(chapters).file \notin DOMAIN src
         THEN [ok |-> FALSE, book |-> <<>>]
         ELSE chapters_fold(src, Tail(chapters),
                            book \o chapter_section(Head(chapters),
                                                    src[Head(chapters).file]))

\* src: the files of the source directory, name to lines
to_single_file(src, meta) ==
    IF SUMMARY_MD \notin DOMAIN src
    THEN [ok |-> FALSE, book |-> <<>>]
    ELSE LET start == meta \o <<"\n">>
             intro == IF README_MD \in DOMAIN src
                      THEN start \o readme_section(src[README_MD])
                      ELSE start
         IN  chapters_fold(src, get_chapters(src[SUMMARY_MD]), intro)

(***************************************************************************)
(* Inputs: documents built from a few lines of context (fence lines, plain *)
(* text) around one line drawn from a richer pool.                         *)
(***************************************************************************)
MaxCtx == 2
MaxDepth == 2
MaxBase == 2
MaxSegs == 3

SeqsUpTo(S, n) == UNION {[1..k -> S] : k \in 0..n}

CtxLines == {CODE_BLOCK_TOGGLE, CODE_BLOCK_TOGGLE \o Rust, <<"x">>}

Titles == {<<"x">>, <<"#", "x">>, <<" ", "x">>}

HeadingLines ==
    {Repeat("#", d) \o <<w>> \o t : d \in 1..MaxDepth, w \in Whitespace, t \in Titles}

Ids == {<<"a">>, <<"a", "b">>}

\* the pieces of a line of prose: text, an inline reference link, a footnote mark
Segments ==
    {[kind |-> "text", title |-> <<"x">>, id |-> <<>>]}
    \cup {[kind |-> "link", title |-> <<"t">>, id |-> i] : i \in Ids}
    \cup {[kind |-> "foot", title |-> <<>>, id |-> i] : i \in Ids}

RenderSeg(g) ==
    CASE g.kind = "text" -> g.title
      [] g.kind = "link" -> <<"[">> \o g.title \o <<"]", "[">> \o g.id \o <<"]">>
      [] g.kind = "foot" -> <<"[", "^">> \o g.id \o <<"]">>

SegLines ==
    {Concat([k \in DOMAIN gs |-> RenderSeg(gs[k])]) :
        gs \in {g \in SeqsUpTo(Segments, MaxSegs) : Len(g) >= 1}}

DefLines ==
    {<<"[", "a", "]", ":", " ", "u">>, <<"[", "^", "a", "]", ":", " ", "u">>}

OtherLines == {<<>>, <<"#">>, <<"#", "x">>, <<"#", " ">>}

RichLines == CtxLines \cup HeadingLines \cup SegLines \cup DefLines \cup OtherLines

Docs ==
    {c \o <<l>> \o s : c \in SeqsUpTo(CtxLines, MaxCtx), l \in RichLines,
                       s \in {<<>>, <<CODE_BLOCK_TOGGLE>>}}

Prefixes == {<<"P">>, <<"c", "1">>}

(***************************************************************************)
(* The fence-aware rewrites applied to one document                        *)
(***************************************************************************)
Init ==
    /\ pc = "start"
    /\ fn = "none"
    /\ input \in Docs
    /\ base_level = 0
    /\ prefix = <<>>
    /\ max_len = 0
    /\ sep = <<>>
    /\ output = <<>>

AdjustHeaderLevel ==
    /\ pc = "start"
    /\ \E b \in 1..MaxBase :
          /\ base_level' = b
          /\ output' = adjust_header_level(input, b)
    /\ fn' = "adjust_header_level"
    /\ pc' = "done"
    /\ UNCHANGED <<input, prefix, max_len, sep>>

AdjustReferenceName ==
    /\ pc = "start"
    /\ \E p \in Prefixes :
          /\ prefix' = p
          /\ output' = adjust_reference_name(input, p)
    /\ fn' = "adjust_reference_name"
    /\ pc' = "done"
    /\ UNCHANGED <<input, base_level, max_len, sep>>

Next == AdjustHeaderLevel \/ AdjustReferenceName

Spec == Init /\ [][Next]_vars

(***************************************************************************)
(* Claims about the fence-aware rewrites                                   *)
(***************************************************************************)
IsToggleLine(line) ==
    Len(line) >= 3 /\ line[1] = BT /\ line[2] = BT /\ line[3] = BT

\* line i lies after an odd number of lines that start with the toggle
InsideFence(doc, i) ==
    Cardinality({j \in 1..(i - 1) : IsToggleLine(doc[j])}) % 2 = 1

OutsideFence(doc, i) == ~InsideFence(doc, i) /\ ~IsToggleLine(doc[i])

\* line is d hash marks, one whitespace glyph and a title
IsHeading(line, d) ==
    /\ d >= 1
    /\ Len(line) >= d + 2
    /\ \A j \in 1..d : line[j] = "#"
    /\ line[d + 1] \in Whitespace

\* C1: adjust_header_level turns every heading line outside a fence, d hash marks,
\* whitespace and a title, into d + base_level - 1 hash marks, one space and the
\* same title.
C1_HeaderLevel ==
    (pc = "done" /\ fn = "adjust_header_level") =>
        /\ Len(output) = Len(input)
        /\ \A i \in 1..Len(input) : \A d \in 1..Len(input[i]) :
              (OutsideFence(input, i) /\ IsHeading(input[i], d)) =>
                  output[i] = Repeat("#", d + base_level - 1) \o <<" ">>
                              \o SubSeq(input[i], d + 2, Len(input[i]))

\* a heading of depth 2 after a closed fence, rewritten under base level 2 to
\* depth 3
C1_Witness ==
    /\ pc = "done" /\ fn = "adjust_header_level" /\ base_level = 2
    /\ \E i \in 1..Len(input) :
          /\ OutsideFence(input, i) /\ IsHeading(input[i], 2)
          /\ i > 2
          /\ output[i] = <<"#", "#", "#", " ", "x">>
          /\ input[i] # output[i]

\* C2: both rewrites copy every line strictly between an opening and a closing
\* toggle line unchanged and at the same position, whatever it looks like.
C2_FenceVerbatim ==
    (pc = "done" /\ fn \in {"adjust_header_level", "adjust_reference_name"}) =>
        /\ Len(output) = Len(input)
        /\ \A i \in 1..Len(input) :
              ( /\ InsideFence(input, i) /\ ~IsToggleLine(input[i])
                /\ \E k \in (i + 1)..Len(input) : IsToggleLine(input[k]) ) =>
                  output[i] = input[i]

\* a line between two toggle lines that the rewrite would change outside a fence
C2_Witness ==
    /\ pc = "done" /\ fn \in {"adjust_header_level", "adjust_reference_name"}
    /\ \E i \in 2..(Len(input) - 1) :
          /\ IsToggleLine(input[i - 1]) /\ IsToggleLine(input[i + 1])
          /\ InsideFence(input, i) /\ ~IsToggleLine(input[i])
          /\ output[i] = input[i]
          /\ \/ fn = "adjust_header_level"
                /\ adjust_header_level(<<input[i]>>, base_level) # <<input[i]>>
             \/ fn = "adjust_reference_name"
                /\ adjust_reference_name(<<input[i]>>, prefix) # <<input[i]>>

\* first closing bracket at or after i (0: none)
NextClose(s, i) ==
    IF \E e \in i..Len(s) : s[e] = "]"
    THEN SetMin({e \in i..Len(s) : s[e] = "]"})
    ELSE 0

\* a footnote mark [^id] starts at i
IsFootAt(s, i) ==
    /\ i + 3 <= Len(s) /\ s[i] = "[" /\ s[i + 1] = "^"
    /\ NextClose(s, i + 2) > i + 2

\* an inline reference link [title][id] starts at i: a bracketed title followed
\* at once by a bracketed id, whatever the title holds
IsLinkAt(s, i) ==
    /\ i <= Len(s) /\ s[i] = "["
    /\ NextClose(s, i + 1) > i + 1
    /\ NextClose(s, i + 1) + 1 <= Len(s)
    /\ s[NextClose(s, i + 1) + 1] = "["
    /\ NextClose(s, NextClose(s, i + 1) + 2) > NextClose(s, i + 1) + 2

LinkEnd(s, i) == NextClose(s, NextClose(s, i + 1) + 2)

HasLink(s) == \E i \in 1..Len(s) : IsLinkAt(s, i)

\* the line read from i on, with the id of every inline reference link prefixed
RECURSIVE LinksNamespaced(_, _, _)
LinksNamespaced(s, pre, i) ==
    IF i > Len(s) THEN <<>>
    ELSE IF IsLinkAt(s, i)
    THEN SubSeq(s, i, NextClose(s, i + 1) + 1) \o pre \o <<"-", "-">>
         \o SubSeq(s, NextClose(s, i + 1) + 2, LinkEnd(s, i))
         \o LinksNamespaced(s, pre, LinkEnd(s, i) + 1)
    ELSE <<s[i]>> \o LinksNamespaced(s, pre, i + 1)

C4_FootnotesNamespaced ==
    (pc = "done" /\ fn = "adjust_reference_name") =>
        \A i \in 1..Len(input) : \A k \in 1..Len(input[i]) :
            (OutsideFence(input, i) /\ IsFootAt(input[i], k)) =>
                Contains(output[i],
                         <<"[", "^">> \o prefix \o <<"-", "-">>
                         \o SubSeq(input[i], k + 2, NextClose(input[i], k + 2)))

(***************************************************************************)
(* break_long_line applied to one line                                     *)
(***************************************************************************)
MaxLineLen == 8
MaxWidth == 5

Glyphs == {"a", "é"}

Seps == {<<>>, <<"↳">>, <<"↳", " ">>}

InitWrap ==
    /\ pc = "start"
    /\ fn = "none"
    /\ \/ /\ input \in SeqsUpTo(Glyphs, MaxLineLen)
          /\ max_len \in 2..MaxWidth
          /\ sep \in Seps
          /\ Len(sep) + 1 <= max_len
       \/ /\ input = long_line
          /\ max_len = 80
          /\ sep = <<"↳", " ">>
    /\ base_level = 0
    /\ prefix = <<>>
    /\ output = <<>>

\* output holds the lines of the returned string
BreakLongLine ==
    /\ pc = "start"
    /\ output' = str_lines(break_long_line(input, max_len, sep))
    /\ fn' = "break_long_line"
    /\ pc' = "done"
    /\ UNCHANGED <<input, base_level, prefix, max_len, sep>>

NextWrap == BreakLongLine

SpecWrap == InitWrap /\ [][NextWrap]_vars

\* C6: with a marker of k glyphs, k + 1 < W, no line of the output of
\* break_long_line has more than W glyphs.
C6_WidthBound ==
    (pc = "done" /\ fn = "break_long_line" /\ Len(sep) + 1 < max_len) =>
        \A j \in 1..Len(output) : Len(output[j]) <= max_len

\* a line broken into three lines or more, the marker holding a multi-byte glyph
C6_Witness ==
    /\ pc = "done" /\ fn = "break_long_line" /\ Len(sep) + 1 < max_len
    /\ Len(output) >= 3 /\ sep = <<"↳", " ">>
    /\ \E j \in 2..Len(output) : Len(output[j]) = max_len - 1

\* C7 as stated: of a line of more than W glyphs the first output line holds the
\* first W glyphs, every later line but the last the marker and W - k - 1 glyphs.
C7_FirstLineFullWidth ==
    (pc = "done" /\ fn = "break_long_line" /\ Len(sep) + 1 < max_len
        /\ Len(input) > max_len) =>
        /\ output[1] = SubSeq(input, 1, max_len)
        /\ \A j \in 2..(Len(output) - 1) :
              output[j] = sep \o SubSeq(input,
                                        max_len + (j - 2) * (max_len - Len(sep) - 1) + 1,
                                        max_len + (j - 1) * (max_len - Len(sep) - 1))

(***************************************************************************)
(* normalize_code_start applied to one document                            *)
(***************************************************************************)
MaxFenceLines == 4

F_RUST == <<BT, BT, BT, "r", "u", "s", "t">>

F_SH == <<BT, BT, BT, "s", "h">>

F_IGNORE ==
    <<BT, BT, BT, "{", "r", "u", "s", "t", ",", "i", "g", "n", "o", "r", "e", "}">>

F_NOEXTRAS ==
    <<BT, BT, BT, " ", "r", "u", "s", "t", ",", "n", "o", "_", "e", "x", "t", "r",
      "a", "s">>

FenceLines ==
    {CODE_BLOCK_TOGGLE,
     F_RUST,
     F_SH,
     F_IGNORE,
     F_NOEXTRAS}

CodeLines == {<<"#", " ", "x">>, <<"#", "x">>, <<"x">>}

FenceDocs == SeqsUpTo(FenceLines \cup CodeLines, MaxFenceLines)

InitFence ==
    /\ pc = "start"
    /\ fn = "none"
    /\ input \in FenceDocs
    /\ base_level = 0
    /\ prefix = <<>>
    /\ max_len = 0
    /\ sep = <<>>
    /\ output = <<>>

NormalizeCodeStart ==
    /\ pc = "start"
    /\ output' = normalize_code_start(input)
    /\ fn' = "normalize_code_start"
    /\ pc' = "done"
    /\ UNCHANGED <<input, base_level, prefix, max_len, sep>>

NextFence == NormalizeCodeStart

SpecFence == InitFence /\ [][NextFence]_vars

RECURSIVE SelectLines(_, _, _)
\* the lines doc[i], i from k on, with keep[i] true
SelectLines(doc, keep, k) ==
    IF k > Len(doc) THEN <<>>
    ELSE (IF keep[k] THEN <<doc[k]>> ELSE <<>>) \o SelectLines(doc, keep, k + 1)

ToggleLinesOf(doc) == SelectLines(doc, [i \in 1..Len(doc) |-> IsToggleLine(doc[i])], 1)

HasRustAfterToggle(line) ==
    \E i \in 4..(Len(line) - 3) : SubSeq(line, i, i + 3) = <<"r", "u", "s", "t">>

Canonical(line) ==
    IF IsToggleLine(line) /\ HasRustAfterToggle(line)
    THEN <<BT, BT, BT, "r", "u", "s", "t">>
    ELSE line

\* C8: normalize_code_start turns every line that starts with the toggle and holds
\* rust anywhere after it into the toggle followed by rust, and passes every
\* other line that starts with the toggle through unchanged.
C8_FenceCanonical ==
    (pc = "done" /\ fn = "normalize_code_start") =>
        ToggleLinesOf(output) =
            [k \in 1..Len(ToggleLinesOf(input)) |-> Canonical(ToggleLinesOf(input)[k])]

\* the three spellings of a rust fence and a sh fence in one document
C8_Witness ==
    /\ pc = "done" /\ fn = "normalize_code_start"
    /\ input = <<F_IGNORE, F_NOEXTRAS, F_SH, CODE_BLOCK_TOGGLE>>
    /\ output = <<F_RUST, F_RUST, F_SH, CODE_BLOCK_TOGGLE>>

IsHiddenLine(line) == Len(line) >= 2 /\ line[1] = "#" /\ line[2] = " "

\* C9 as stated: the lines removed are exactly those that begin with the hidden
\* marker and lie inside a fence, whatever opened it.
C9_HiddenInAnyFence ==
    (pc = "done" /\ fn = "normalize_code_start") =>
        output = SelectLines([i \in 1..Len(input) |-> Canonical(input[i])],
                             [i \in 1..Len(input) |->
                                 ~(IsHiddenLine(input[i]) /\ InsideFence(input, i))],
                             1)

\* the nearest line before i that starts with the toggle holds rust after it
AfterRustToggle(doc, i) ==
    \E j \in 1..(i - 1) :
        /\ IsToggleLine(doc[j]) /\ HasRustAfterToggle(doc[j])
        /\ \A k \in (j + 1)..(i - 1) : ~IsToggleLine(doc[k])

\* C9 amended: the lines removed are exactly those that begin with the hidden
\* marker and whose nearest earlier toggle line holds rust; every other line that
\* begins with the marker is kept.
C9_HiddenInRustFence ==
    (pc = "done" /\ fn = "normalize_code_start") =>
        output = SelectLines([i \in 1..Len(input) |-> Canonical(input[i])],
                             [i \in 1..Len(input) |->
                                 ~(IsHiddenLine(input[i]) /\ AfterRustToggle(input, i))],
                             1)

\* a hidden line dropped from a rust fence, one kept in a sh fence
C9_Witness ==
    /\ pc = "done" /\ fn = "normalize_code_start"
    /\ input = <<F_RUST, <<"#", " ", "x">>, F_SH, <<"#", " ", "x">>>>
    /\ output = <<F_RUST, F_SH, <<"#", " ", "x">>>>

(***************************************************************************)
(* normalize applied to one document                                       *)
(***************************************************************************)
MaxNormLines == 3
MaxHidden == 86

\* a hidden line: the marker and n glyphs that no other line holds
HiddenLine(n) == <<"#", " ">> \o Repeat("z", n)

\* the hidden lines of the inputs: short ones, and ones about as long as the width
HiddenLens == {1} \cup 84..MaxHidden

PROSE_LINK == <<"[", "t", "]", "(", "a", "-", "b", ".", "h", "t", "m", "l", ")">>

PROSE_STD == <<".", ".", "/", "s", "t", "d", "/", "x">>

PROSE_SUP == <<"2", "<", "s", "u", "p", ">", "1", "0", "<", "/", "s", "u", "p", ">">>

ProseLines ==
    {<<"x">>,
     PROSE_LINK,
     PROSE_STD,
     PROSE_SUP}

NormLines ==
    {CODE_BLOCK_TOGGLE, F_RUST, F_SH} \cup {HiddenLine(n) : n \in HiddenLens}
    \cup ProseLines

NormDocs == SeqsUpTo(NormLines, MaxNormLines)

InitNormalize ==
    /\ pc = "start"
    /\ fn = "none"
    /\ input \in NormDocs
    /\ base_level = 0
    /\ prefix = <<>>
    /\ max_len = 0
    /\ sep = <<>>
    /\ output = <<>>

Normalize ==
    /\ pc = "start"
    /\ output' = normalize(input)
    /\ fn' = "normalize"
    /\ pc' = "done"
    /\ UNCHANGED <<input, base_level, prefix, max_len, sep>>

NextNormalize == Normalize

SpecNormalize == InitNormalize /\ [][NextNormalize]_vars

HoldsGlyph(line, gl) == \E k \in 1..Len(line) : line[k] = gl

\* C10: no part of a hidden line inside a rust fence, whatever its length, is in
\* the output of normalize: when only such lines hold the glyph z, the output
\* holds no z.
C10_HiddenNeverShown ==
    ( /\ pc = "done" /\ fn = "normalize"
      /\ \A i \in 1..Len(input) :
            HoldsGlyph(input[i], "z") =>
                (IsHiddenLine(input[i]) /\ AfterRustToggle(input, i)) ) =>
        \A j \in 1..Len(output) : ~HoldsGlyph(output[j], "z")

(***************************************************************************)
(* The book assembled from a source directory: SUMMARY.md, README.md and   *)
(* the chapter files, each holding one reference definition                *)
(***************************************************************************)
MaxChapters == 2

BOOK_META == <<"-", "-", "-">>

SUMMARY_TITLE == <<"#", " ", "S", "u", "m", "m", "a", "r", "y">>

BookFiles ==
    {<<"a">>, <<"a", "-">>, <<"a", "-", "-", "b">>, <<"b", ".", "m", "d">>,
     <<"r", "e", "a", "d", "m", "e">>}

TocEntry(indent, f) ==
    indent \o <<"*", " ", "[", "T", "]", "(">> \o f \o <<")">>

TocLines ==
    {TocEntry(<<>>, f) : f \in BookFiles}
    \cup {TocEntry(<<" ", " ">>, <<"b", ".", "m", "d">>)}

BookIds == {<<"x">>, <<"-", "x">>, <<"b", "-", "-", "x">>}

DefLine(id) == <<"[">> \o id \o <<"]", ":", " ", "u">>

\* a file with a title line and a heading before its definition
TitledDoc == <<<<"%", " ", "T">>, <<"#", " ", "H">>, DefLine(<<"x">>)>>

ChapterDocs == {<<DefLine(id)>> : id \in BookIds}

ReadmeDocs == {<<DefLine(<<"x">>)>>, TitledDoc}

TocFiles(entries) == {toc_pattern(entries[i]).filename : i \in DOMAIN entries}

\* the source directories: the table of contents, README.md or not, and the
\* chapter files, the last chapter's file missing or not
BookSources ==
    {<<>>} \cup
    UNION {
      UNION {
        UNION {
          { (SUMMARY_MD :> (<<SUMMARY_TITLE>> \o entries)) @@ readme @@ chapters
            : readme \in {<<>>} \cup {(README_MD :> d) : d \in ReadmeDocs} }
          : chapters \in [files -> ChapterDocs] }
        : files \in {TocFiles(entries)}
                    \cup (IF entries = <<>> THEN {}
                          ELSE {TocFiles(entries)
                                  \ {toc_pattern(entries[Len(entries)]).filename}}) }
      : entries \in SeqsUpTo(TocLines, MaxChapters) }

InitBook ==
    /\ pc = "start"
    /\ fn = "none"
    /\ input \in BookSources
    /\ base_level = 0
    /\ prefix = <<>>
    /\ max_len = 0
    /\ sep = <<>>
    /\ output = <<>>

ToSingleFile ==
    /\ pc = "start"
    /\ output' = to_single_file(input, BOOK_META)
    /\ fn' = "to_single_file"
    /\ pc' = "done"
    /\ UNCHANGED <<input, base_level, prefix, max_len, sep>>

NextBook == ToSingleFile

SpecBook == InitBook /\ [][NextBook]_vars

\* the files the book is made of, in the order of the book, each with the prefix
\* its references are namespaced with
BookParts(src) ==
    LET chapters == get_chapters(src[SUMMARY_MD])
    IN  (IF README_MD \in DOMAIN src
         THEN <<[file |-> README_MD, prefix |-> README_PREFIX]>>
         ELSE <<>>)
        \o [k \in 1..Len(chapters) |->
               [file |-> chapters[k].file, prefix |-> chapters[k].file]]

IsDefLine(line) ==
    /\ Len(line) >= 6
    /\ line[1] = "["
    /\ SubSeq(line, Len(line) - 3, Len(line)) = <<"]", ":", " ", "u">>

DefIdOf(line) == SubSeq(line, 2, Len(line) - 4)

\* the namespaced ids of the book's reference definitions, one per part
BookDefIds(book) ==
    LET defs == SelectSeq(str_lines(book), IsDefLine)
    IN  [k \in 1..Len(defs) |-> DefIdOf(defs[k])]

BookDone == pc = "done" /\ fn = "to_single_file" /\ output.ok

\* C5 as stated: for any two different files of one book and any ids in them, the
\* namespaced ids prefix1--i1 and prefix2--i2 found in the book are different.
C5_Injective ==
    BookDone =>
        LET parts == BookParts(input)
            ids == BookDefIds(output.book)
        IN  /\ Len(ids) = Len(parts)
            /\ \A j, k \in 1..Len(parts) :
                  parts[j].file # parts[k].file => ids[j] # ids[k]

CleanPrefix(p) ==
    /\ ~Contains(p, <<"-", "-">>)
    /\ (p = <<>> \/ p[Len(p)] # "-")

\* C5 amended: for any two files of one book whose prefixes differ, hold no "--"
\* and do not end with "-", and any ids in them (equal or different), the
\* namespaced ids prefix1--i1 and prefix2--i2 found in the book are different.
C5_InjectiveCleanPrefixes ==
    BookDone =>
        LET parts == BookParts(input)
            ids == BookDefIds(output.book)
        IN  /\ Len(ids) = Len(parts)
            /\ \A j, k \in 1..Len(parts) :
                  ( /\ parts[j].prefix # parts[k].prefix
                    /\ CleanPrefix(parts[j].prefix)
                    /\ CleanPrefix(parts[k].prefix) ) => ids[j] # ids[k]

\* two files with clean, different prefixes define the same id x, and the book
\* holds it once under each prefix
C5_Witness ==
    /\ BookDone
    /\ LET parts == BookParts(input)
           ids == BookDefIds(output.book)
       IN  /\ Len(ids) = Len(parts)
           /\ \E j, k \in 1..Len(parts) :
                 /\ parts[j].prefix # parts[k].prefix
                 /\ CleanPrefix(parts[j].prefix)
                 /\ CleanPrefix(parts[k].prefix)
                 /\ input[parts[j].file][Len(input[parts[j].file])] = DefLine(<<"x">>)
                 /\ input[parts[k].file][Len(input[parts[k].file])] = DefLine(<<"x">>)
                 /\ ids[j] = parts[j].prefix \o <<"-", "-", "x">>
                 /\ ids[k] = parts[k].prefix \o <<"-", "-", "x">>

(***************************************************************************)
(* The table of contents parsed: entries, and lines that are no entries    *)
(***************************************************************************)
MaxTocLines == 2

TOC_ENTRY == <<"*", " ", "[", "T", "]", "(", "a", ".", "m", "d", ")">>

TOC_NESTED ==
    <<" ", " ", "*", " ", "[", "U", "]", "(", "d", "/", "c", ".", "m", "d", ")">>

TOC_NESTED_TAB ==
    <<"\t", "*", " ", "[", "T", "]", "(", "a", ".", "b", ".", "m", "d", ")">>

TOC_NESTED_ONE == <<" ", "*", " ", "[", "U", " ", "V", "]", "(", "a", ")">>

TOC_TEXT_BEFORE ==
    <<"s", "e", "e", " ", "*", " ", "[", "T", "]", "(", "a", ".", "m", "d", ")">>

TOC_TEXT_AFTER ==
    <<"*", " ", "[", "T", "]", "(", "a", ".", "m", "d", ")", " ", "e", "n", "d">>

TOC_NO_SPACE == <<"*", "[", "T", "]", "(", "a", ".", "m", "d", ")">>

TOC_TAB_BULLET == <<"*", "\t", "[", "T", "]", "(", "a", ".", "m", "d", ")">>

TOC_DASH == <<"-", " ", "[", "T", "]", "(", "a", ".", "m", "d", ")">>

\* an entry whose file name ends in a dot and glyphs that are not all word glyphs
TOC_ODD_EXT == <<"*", " ", "[", "T", "]", "(", "a", ".", "b", "-", "c", ")">>

TocPool ==
    {TOC_ENTRY, TOC_NESTED, TOC_NESTED_TAB, TOC_NESTED_ONE, TOC_TEXT_BEFORE,
     TOC_TEXT_AFTER, TOC_NO_SPACE, TOC_TAB_BULLET, TOC_DASH, TOC_ODD_EXT,
     SUMMARY_TITLE, <<>>}

InitToc ==
    /\ pc = "start"
    /\ fn = "none"
    /\ input \in SeqsUpTo(TocPool, MaxTocLines)
    /\ base_level = 0
    /\ prefix = <<>>
    /\ max_len = 0
    /\ sep = <<>>
    /\ output = <<>>

\* convert_book/markdown.rs
GetChapters ==
    /\ pc = "start"
    /\ output' = get_chapters(input)
    /\ fn' = "get_chapters"
    /\ pc' = "done"
    /\ UNCHANGED <<input, base_level, prefix, max_len, sep>>

\* read_toc.rs
ReadTocGetChapters ==
    /\ pc = "start"
    /\ output' = read_toc_get_chapters(input)
    /\ fn' = "read_toc::get_chapters"
    /\ pc' = "done"
    /\ UNCHANGED <<input, base_level, prefix, max_len, sep>>

NextToc == GetChapters \/ ReadTocGetChapters

SpecToc == InitToc /\ [][NextToc]_vars

TocDone == pc = "done" /\ fn \in {"get_chapters", "read_toc::get_chapters"}

\* a line read as  <whitespace>* [<title>](<file>)  and nothing else: the
\* whitespace before the bullet, the title up to the first closing bracket, the
\* file up to the closing parenthesis that ends the line
EntryParts(line) ==
    LET black == {i \in 1..Len(line) : line[i] \notin Whitespace}
        p == IF black = {} THEN 0 ELSE SetMin(black)
        closes == {i \in (p + 4)..Len(line) : line[i] = "]"}
        te == IF closes = {} THEN 0 ELSE SetMin(closes)
        ok == /\ p > 0
              /\ p + 2 <= Len(line)
              /\ line[p] = "*" /\ line[p + 1] = " " /\ line[p + 2] = "["
              /\ te > 0
              /\ te + 3 <= Len(line)
              /\ line[te + 1] = "("
              /\ line[Len(line)] = ")"
              /\ \A i \in (te + 2)..(Len(line) - 1) : line[i] # ")"
    IN  IF ok
        THEN [ok |-> TRUE, indent |-> SubSeq(line, 1, p - 1),
              title |-> SubSeq(line, p + 3, te - 1),
              file |-> SubSeq(line, te + 2, Len(line) - 1)]
        ELSE [ok |-> FALSE, indent |-> <<>>, title |-> <<>>, file |-> <<>>]

\* the entries of a table of contents, in the order of its lines
EntriesOf(toc) ==
    SelectLines([i \in 1..Len(toc) |-> EntryParts(toc[i])],
                [i \in 1..Len(toc) |-> EntryParts(toc[i]).ok], 1)

\* a bullet followed by a tab: markdown.rs takes it for an entry, read_toc.rs
\* does not
BulletTab(line) ==
    \E i \in 1..(Len(line) - 1) : line[i] = "*" /\ line[i + 1] = "\t"

\* C11: get_chapters returns one Chapter for each entry line, in the order of the
\* lines, and none for any other line (lines with a tab after the bullet set
\* aside).
C11_ChaptersAreEntries ==
    (TocDone /\ \A i \in 1..Len(input) : ~BulletTab(input[i])) =>
        /\ Len(output) = Len(EntriesOf(input))
        /\ \A k \in 1..Len(output) : output[k].file = EntriesOf(input)[k].file

\* the file name without its directory and without its extension
Stem(file) ==
    LET slashes == {i \in 1..Len(file) : file[i] = "/"}
        base == IF slashes = {} THEN file
                ELSE SubSeq(file, SetMax(slashes) + 1, Len(file))
        dots == {i \in 1..Len(base) : base[i] = "."}
    IN  IF dots = {} THEN base ELSE SubSeq(base, 1, SetMax(dots) - 1)

\* the file name without its directory, and without its last dot and what
\* follows it when that holds word glyphs only
StemWord(file) ==
    LET base == Stem(file)
        slashes == {i \in 1..Len(file) : file[i] = "/"}
        name == IF slashes = {} THEN file
                ELSE SubSeq(file, SetMax(slashes) + 1, Len(file))
        ext == SubSeq(name, Len(base) + 2, Len(name))
    IN  IF \A i \in 1..Len(ext) : ext[i] \in Letters \cup Digits \cup {"_"}
        THEN base ELSE name

\* the heading of an entry: level 1 without indent, level 2 with
EntryHeading(e, stem) ==
    (IF e.indent = <<>> THEN <<"#">> ELSE <<"#", "#">>)
    \o <<" ">> \o e.title \o <<" ", "{", "#", "s", "e", "c", "-", "-">>
    \o stem \o <<"}">>

AllEntries(toc) == \A i \in 1..Len(toc) : EntryParts(toc[i]).ok

\* C12 as stated: in a table of contents of entries, an entry without leading
\* whitespace gets the heading  # title {#sec--stem},  an entry with leading
\* whitespace the heading  ## title {#sec--stem},  stem being the file name
\* without directory and extension.
C12_HeadingLevels ==
    (TocDone /\ AllEntries(input)) =>
        /\ Len(output) = Len(input)
        /\ \A k \in 1..Len(input) :
              str_lines(output[k].headline)
                = <<EntryHeading(EntryParts(input[k]), Stem(EntryParts(input[k]).file))>>

\* C12 amended: the same levels and title, stem being the file name without
\* directory and without its extension when the extension holds only letters,
\* digits and underscores; any other extension stays in the stem.
C12_HeadingLevelsWordExt ==
    (TocDone /\ AllEntries(input)) =>
        /\ Len(output) = Len(input)
        /\ \A k \in 1..Len(input) :
              str_lines(output[k].headline)
                = <<EntryHeading(EntryParts(input[k]),
                                 StemWord(EntryParts(input[k]).file))>>

\* an entry at the margin and one indented by a tab, the latter with a dot in its
\* stem
C12_Witness ==
    /\ TocDone
    /\ input = <<TOC_ENTRY, TOC_NESTED_TAB>>
    /\ output[1].headline
         = <<"#", " ", "T", " ", "{", "#", "s", "e", "c", "-", "-", "a", "}", "\n">>
    /\ output[2].headline
         = <<"#", "#", " ", "T", " ", "{", "#", "s", "e", "c", "-", "-", "a", ".", "b",
             "}", "\n">>

(***************************************************************************)
(* The book end to end: chapters with headings and with links to chapters  *)
(***************************************************************************)
MaxBookChapters == 2

HEADING_TITLE ==
    <<"#", " ", "T", "i", "t", "l", "e">>

HEADING_TITLE_3 ==
    <<"#", "#", "#", " ", "T", "i", "t", "l", "e">>

TEXT_LINE ==
    <<"t", "e", "x", "t">>

INTRO_LINE ==
    <<"i", "n", "t", "r", "o">>

MORE_LINE ==
    <<"m", "o", "r", "e">>

LINK_CH1 ==
    <<"[", "t", "]", "(", "c", "h", "1", ".", "h", "t", "m", "l", ")">>

LINK_CH1_DONE ==
    <<"[", "t", "]", "(", "#", "s", "e", "c", "-", "-", "c", "h", "1", ")">>

LINK_TWO ==
    <<"s", "e", "e", " ", "[", "t", "]", "(", "a", "-", "b", ".", "h", "t",
      "m", "l", ")", " ", "a", "n", "d", " ", "[", "u", "]", "(", "c", "h",
      "1", ".", "h", "t", "m", "l", "#", "s", "u", "b", ")", ".">>

LINK_TWO_DONE ==
    <<"s", "e", "e", " ", "[", "t", "]", "(", "#", "s", "e", "c", "-", "-",
      "a", "-", "b", ")", " ", "a", "n", "d", " ", "[", "u", "]", "(", "#",
      "s", "u", "b", ")", ".">>

GENERATED_CH1 ==
    <<"#", " ", "T", "i", "t", "l", "e", " ", "{", "#", "s", "e", "c", "-",
      "-", "c", "h", "1", "}">>

GENERATED_CH1_3 ==
    <<"#", "#", "#", " ", "T", "i", "t", "l", "e", " ", "{", "#", "s", "e",
      "c", "-", "-", "c", "h", "1", "}">>

STEM_CH1 ==
    <<"c", "h", "1">>

STEM_AB ==
    <<"a", "-", "b">>

DOT_MD ==
    <<".", "m", "d">>

TITLE ==
    <<"T", "i", "t", "l", "e">>

BookStems == {STEM_CH1, STEM_AB}

BookEntries ==
    {indent \o <<"*", " ", "[">> \o TITLE \o <<"]", "(">> \o stem \o DOT_MD \o <<")">>
        : indent \in {<<>>, <<" ", " ">>}, stem \in BookStems}

HeadedDocs == {<<HEADING_TITLE, TEXT_LINE>>, <<HEADING_TITLE>>}

\* a link to a subsection whose name holds a dot
LINK_DOTTED ==
    <<"[", "v", "]", "(", "c", "h", "1", ".", "h", "t", "m", "l", "#", "s", ".", "1", ")">>

LINK_DOTTED_DONE ==
    <<"[", "v", "]", "(", "#", "s", ".", "1", ")">>

LinkedDocs == {<<LINK_CH1>>, <<HEADING_TITLE, LINK_TWO>>, <<LINK_DOTTED>>}

PlainReadmes == {<<INTRO_LINE>>, <<INTRO_LINE, MORE_LINE>>}

LinkedSources ==
    UNION {
      UNION {
        { (SUMMARY_MD :> (<<SUMMARY_TITLE>> \o entries)) @@ readme @@ chapters
          : readme \in {<<>>} \cup {(README_MD :> d)
                                      : d \in PlainReadmes \cup {<<INTRO_LINE, LINK_CH1>>}} }
        : chapters \in [TocFiles(entries) -> HeadedDocs \cup LinkedDocs] }
      : entries \in SeqsUpTo(BookEntries, MaxBookChapters) }

InitEndToEnd ==
    /\ pc = "start"
    /\ fn = "none"
    /\ input \in LinkedSources
    /\ base_level = 0
    /\ prefix = <<>>
    /\ max_len = 0
    /\ sep = <<>>
    /\ output = <<>>

NextEndToEnd == ToSingleFile

SpecEndToEnd == InitEndToEnd /\ [][NextEndToEnd]_vars

IsNonBlank(line) == line # <<>>

\* the lines of the book that hold something
BookText == SelectSeq(str_lines(output.book), IsNonBlank)

CH1_MD == STEM_CH1 \o DOT_MD

TOC_ENTRY_CH1 == <<"*", " ", "[">> \o TITLE \o <<"]", "(">> \o CH1_MD \o <<")">>

\* a README without heading, and ch1.md alone in the table of contents, at the
\* margin, its file beginning with the heading  # Title
ReadmeAndCh1 ==
    /\ BookDone
    /\ DOMAIN input = {SUMMARY_MD, README_MD, CH1_MD}
    /\ input[README_MD] \in PlainReadmes
    /\ input[SUMMARY_MD] = <<SUMMARY_TITLE, TOC_ENTRY_CH1>>
    /\ input[CH1_MD] \in HeadedDocs

\* C13 as stated: the book holds  # Introduction,  the README,  the generated
\* heading  ### Title {#sec--ch1}  and the chapter with its heading as  ### Title.
C13_GeneratedLevelThree ==
    ReadmeAndCh1 =>
        BookText = <<BOOK_META, INTRODUCTION>> \o input[README_MD]
                   \o <<GENERATED_CH1_3, HEADING_TITLE_3>> \o Tail(input[CH1_MD])

\* C13 amended: the generated heading of a chapter at the margin is of level 1,
\* # Title {#sec--ch1};  the rest as stated.
C13_GeneratedLevelOne ==
    ReadmeAndCh1 =>
        BookText = <<BOOK_META, INTRODUCTION>> \o input[README_MD]
                   \o <<GENERATED_CH1, HEADING_TITLE_3>> \o Tail(input[CH1_MD])

\* the book of a one-line README and a chapter of a heading and a line of text
C13_Witness ==
    /\ ReadmeAndCh1
    /\ input[README_MD] = <<INTRO_LINE>>
    /\ input[CH1_MD] = <<HEADING_TITLE, TEXT_LINE>>
    /\ BookText = <<BOOK_META, INTRODUCTION, INTRO_LINE, GENERATED_CH1,
                    HEADING_TITLE_3, TEXT_LINE>>

InBook(line) == \E k \in 1..Len(BookText) : BookText[k] = line

\* the heading get_chapters generates for the chapter of that stem, at either
\* level, is in the book
AnchorInBook(stem) ==
    \E level \in {<<"#">>, <<"#", "#">>} :
        InBook(level \o <<" ">> \o TITLE
               \o <<" ", "{", "#", "s", "e", "c", "-", "-">> \o stem \o <<"}">>)

Listed(stem) == (stem \o DOT_MD) \in DOMAIN input

HasLine(src, line) ==
    \E f \in DOMAIN src \ {SUMMARY_MD} : \E i \in 1..Len(src[f]) : src[f][i] = line

\* C15 as stated: a link  ](stem.html)  of a file of the book comes out as
\* ](#sec--stem),  and when stem.md is a chapter of the table of contents the book
\* holds that chapter's generated heading with the anchor  {#sec--stem};  a link
\* ](stem.html#sub)  comes out as  ](#sub),  whatever sub is.
C15_LinksMeetAnchorsAnySub ==
    BookDone =>
        /\ HasLine(input, LINK_CH1) =>
              /\ InBook(LINK_CH1_DONE)
              /\ ~InBook(LINK_CH1)
              /\ Listed(STEM_CH1) => AnchorInBook(STEM_CH1)
        /\ HasLine(input, LINK_TWO) =>
              /\ InBook(LINK_TWO_DONE)
              /\ ~InBook(LINK_TWO)
              /\ Listed(STEM_AB) => AnchorInBook(STEM_AB)
        /\ HasLine(input, LINK_DOTTED) =>
              /\ InBook(LINK_DOTTED_DONE)
              /\ ~InBook(LINK_DOTTED)

\* C15 amended: the same, the link  ](stem.html#sub)  coming out as  ](#sub)
\* when sub is made of word glyphs and hyphens.
C15_LinksMeetAnchors ==
    BookDone =>
        /\ HasLine(input, LINK_CH1) =>
              /\ InBook(LINK_CH1_DONE)
              /\ ~InBook(LINK_CH1)
              /\ Listed(STEM_CH1) => AnchorInBook(STEM_CH1)
        /\ HasLine(input, LINK_TWO) =>
              /\ InBook(LINK_TWO_DONE)
              /\ ~InBook(LINK_TWO)
              /\ Listed(STEM_AB) => AnchorInBook(STEM_AB)

\* a chapter that links to the chapters ch1 and a-b, both in the table of contents
C15_Witness ==
    /\ BookDone
    /\ HasLine(input, LINK_TWO)
    /\ Listed(STEM_AB) /\ Listed(STEM_CH1)
    /\ InBook(LINK_TWO_DONE)
    /\ AnchorInBook(STEM_AB) /\ AnchorInBook(STEM_CH1)

(***************************************************************************)
(* src/convert_book/mod.rs, src/convert_book/pandoc.rs and                 *)
(* src/helpers/shell_pipe.rs: the book rendered format by format.          *)
(* output holds: next, the index of the format to render; dist, the state  *)
(* of each artifact; printed, the formats reported with a check mark;      *)
(* failed, the formats whose renderer failed.                              *)
(***************************************************************************)
\* the formats of the save_as calls of render_book, in order
RenderFormats == <<"html", "epub", "tex", "a4.pdf", "letter.pdf">>

\* what can become of one run of the renderer: it ends well; it cannot be
\* started; writing to its stdin or reading its stdout fails; it reads its input,
\* closes its output and ends with an error
RendererOutcomes == {"ok", "not_started", "stdin_error", "stdout_error", "exit_error"}

\* shell_pipe::run: Err when spawn, write_all or read_to_string fails; the exit
\* status of the child is never asked for
shell_pipe_run(outcome) ==
    IF outcome \in {"not_started", "stdin_error", "stdout_error"} THEN "Err" ELSE "Ok"

\* what the renderer can leave at --output
ArtifactsAfter(outcome, before) ==
    CASE outcome = "ok" -> {"complete"}
      [] outcome = "not_started" -> {before}
      [] OTHER -> {before, "partial"}

InitRender ==
    /\ pc = "start"
    /\ fn = "render_book"
    /\ input \in {<<"t", "r", "p", "l">>, <<"n", "o", "m", "i", "c", "o", "n">>}
    /\ base_level = 0
    /\ prefix = <<>>
    /\ max_len = 0
    /\ sep = <<>>
    /\ output = [next |-> 0,
                 dist |-> [f \in {"md"} \cup {RenderFormats[i] : i \in 1..Len(RenderFormats)}
                             |-> "absent"],
                 printed |-> {},
                 failed |-> {}]

\* the meta file is read and the book put together; an error is returned
ReadBook ==
    /\ pc = "start"
    /\ pc' \in {"book", "returned_err"}
    /\ UNCHANGED <<fn, input, base_level, prefix, max_len, sep, output>>

\* write_string_to_file of the markdown book, then its check mark
WriteMarkdown ==
    /\ pc = "book"
    /\ \/ /\ pc' = "save_as"
          /\ output' = [output EXCEPT !.next = 1, !.dist["md"] = "complete",
                                      !.printed = @ \cup {"md"}]
       \/ /\ pc' = "returned_err"
          /\ \E a \in {"absent", "partial"} : output' = [output EXCEPT !.dist["md"] = a]
    /\ UNCHANGED <<fn, input, base_level, prefix, max_len, sep>>

\* save_as for the next format: run(...).expect(...) panics on Err; on Ok the
\* check mark is printed and render_book goes on
SaveAs ==
    /\ pc = "save_as"
    /\ output.next <= Len(RenderFormats)
    /\ LET f == RenderFormats[output.next]
       IN  \E outcome \in RendererOutcomes :
           \E a \in ArtifactsAfter(outcome, output.dist[f]) :
              IF shell_pipe_run(outcome) = "Err"
              THEN /\ pc' = "panicked"
                   /\ output' = [output EXCEPT !.dist[f] = a,
                                               !.failed = @ \cup {f}]
              ELSE /\ pc' = "save_as"
                   /\ output' = [output EXCEPT
                                   !.next = @ + 1,
                                   !.dist[f] = a,
                                   !.printed = @ \cup {f},
                                   !.failed = IF outcome = "ok" THEN @ ELSE @ \cup {f}]
    /\ UNCHANGED <<fn, input, base_level, prefix, max_len, sep>>

\* Ok(()) after the last format
RenderDone ==
    /\ pc = "save_as"
    /\ output.next > Len(RenderFormats)
    /\ pc' = "returned_ok"
    /\ UNCHANGED <<fn, input, base_level, prefix, max_len, sep, output>>

NextRender == ReadBook \/ WriteMarkdown \/ SaveAs \/ RenderDone

SpecRender == InitRender /\ [][NextRender]_vars

\* C14: a format whose renderer failed is not reported as produced, and
\* render_book does not go on after it.
C14_FailureIsTerminal ==
    fn = "render_book" =>
        \A f \in output.failed :
            /\ f \notin output.printed
            /\ pc \notin {"save_as", "returned_ok"}

(***************************************************************************)
(* the fence flag of the four passes over one document                     *)
(* output holds, for each pass that has run, the value of in_code_block    *)
(* after every prefix of the input: element k + 1 after the first k lines. *)
(***************************************************************************)
MaxFlagLines == 3

FlagPasses ==
    {"adjust_header_level", "adjust_reference_name", "break_code_blocks",
     "normalize_code_start"}

FlagLines == {CODE_BLOCK_TOGGLE, F_RUST, F_SH, <<"x">>, <<"#", " ", "x">>}

FlagDocs == SeqsUpTo(FlagLines, MaxFlagLines)

InitFlags ==
    /\ pc = "start"
    /\ fn = "none"
    /\ input \in FlagDocs
    /\ base_level = 1
    /\ prefix = <<"P">>
    /\ max_len = 4
    /\ sep = <<"↳", " ">>
    /\ output = [p \in FlagPasses |-> <<>>]

\* the flags a pass has been through, one fold per prefix
FlagsOf(pass) ==
    [k \in 1..(Len(input) + 1) |->
        LET lines == SubSeq(input, 1, k - 1)
        IN  CASE pass = "adjust_header_level" ->
                   adjust_header_level_fold(lines, base_level, FALSE, <<>>).in_code_block
              [] pass = "adjust_reference_name" ->
                   adjust_reference_name_fold(lines, prefix, FALSE, <<>>).in_code_block
              [] pass = "break_code_blocks" ->
                   break_code_blocks_fold(lines, max_len, sep, FALSE, <<>>).in_code_block
              [] pass = "normalize_code_start" ->
                   normalize_code_start_fold(lines, FALSE, <<>>).in_code_block]

RunPass(pass) ==
    /\ pc = "start"
    /\ output[pass] = <<>>
    /\ output' = [output EXCEPT ![pass] = FlagsOf(pass)]
    /\ fn' = pass
    /\ pc' = IF \A q \in FlagPasses \ {pass} : output[q] # <<>> THEN "done" ELSE "start"
    /\ UNCHANGED <<input, base_level, prefix, max_len, sep>>

FlagAdjustHeaderLevel == RunPass("adjust_header_level")

FlagAdjustReferenceName == RunPass("adjust_reference_name")

FlagBreakCodeBlocks == RunPass("break_code_blocks")

FlagNormalizeCodeStart == RunPass("normalize_code_start")

NextFlags ==
    \/ FlagAdjustHeaderLevel
    \/ FlagAdjustReferenceName
    \/ FlagBreakCodeBlocks
    \/ FlagNormalizeCodeStart

SpecFlags == InitFlags /\ [][NextFlags]_vars

FlagsDone == pc = "done" /\ fn \in FlagPasses /\ DOMAIN output = FlagPasses

\* the flag is false at the start and every toggle line flips it
FlipsOnEveryToggle(flags) ==
    /\ Len(flags) = Len(input) + 1
    /\ flags[1] = FALSE
    /\ \A k \in 1..Len(input) :
          flags[k + 1] = (IF IsToggleLine(input[k]) THEN ~flags[k] ELSE flags[k])

\* C16 as stated: in each of the four passes the flag is false at the start of
\* the call and every line that starts with the toggle flips it, so after any
\* prefix of the input all four passes hold the same flag.
C16_SameFlagInFour ==
    FlagsDone =>
        /\ \A p \in FlagPasses : FlipsOnEveryToggle(output[p])
        /\ \A p, q \in FlagPasses : output[p] = output[q]

\* C16 amended: in adjust_header_level, adjust_reference_name and
\* break_code_blocks the flag is false at the start of the call and every line
\* that starts with the toggle flips it, so after any prefix the three hold the same
\* flag; the flag of normalize_code_start is false at the start too, and after a
\* prefix it is true exactly when the nearest earlier toggle line holds rust.
C16_SameFlagInThree ==
    FlagsDone =>
        /\ \A p \in FlagPasses \ {"normalize_code_start"} :
              FlipsOnEveryToggle(output[p])
        /\ \A p, q \in FlagPasses \ {"normalize_code_start"} : output[p] = output[q]
        /\ Len(output["normalize_code_start"]) = Len(input) + 1
        /\ output["normalize_code_start"][1] = FALSE
        /\ \A k \in 1..Len(input) :
              output["normalize_code_start"][k + 1] = AfterRustToggle(input, k + 1)

\* a fence opened with a tag other than rust: three passes are inside it, the
\* fourth is not
C16_Witness ==
    /\ FlagsDone
    /\ input = <<F_SH, <<"x">>, CODE_BLOCK_TOGGLE>>
    /\ output["adjust_header_level"] = <<FALSE, TRUE, TRUE, FALSE>>
    /\ output["adjust_reference_name"] = <<FALSE, TRUE, TRUE, FALSE>>
    /\ output["break_code_blocks"] = <<FALSE, TRUE, TRUE, FALSE>>
    /\ output["normalize_code_start"] = <<FALSE, FALSE, FALSE, FALSE>>

====
